---- MODULE Spec2Model ----
(***************************************************************************)
(* Stock ledger and delivery lifecycle of controle_epi (src/app.py).       *)
(*                                                                         *)
(* The state is the content of the tables epi, funcionario, entrega_epi,   *)
(* historico_epi and log, the wall clock, and the message of the last      *)
(* response.  Every route handler is one action.  Rows are kept as         *)
(* functions from primary key to record; a new row takes the key           *)
(* max(existing keys) + 1, which is what an INTEGER PRIMARY KEY does.      *)
(* Columns no handler of the ledger reads (numero_ca, codigo_produto,      *)
(* observacao, validade_entrega, the employee's matricula and setor,       *)
(* entregue_por, usuario of historico_epi, and the timestamps of           *)
(* historico_epi and log) are left out of the rows; a Log row keeps its    *)
(* usuario and the kind of its acao text is not told apart.                *)
(* A text whose characters are read (validade_ca) is the sequence of its   *)
(* characters; the other texts are strings.                                *)
(* A request for a row that does not exist                                 *)
(* (get_or_404) aborts before it reads or writes anything: the action is   *)
(* not enabled.                                                            *)
(***************************************************************************)
EXTENDS Integers, Sequences, FiniteSets, TLC

\* ------------------------------------------------------------- bounds
MaxEpis == 2
MaxFuncs == 1
MaxEntregas == 1
MaxHist == 2
MaxLog == 3
MaxTime == 2
\* the table sizes of the behaviours with removals (SpecCascata)
MaxFuncsCasc == 2
MaxEntregasCasc == 2
MaxHistCasc == 3
MaxLogCasc == 6
\* the table sizes and the number of requests in progress at once of the
\* behaviours with concurrent deliveries (SpecConcorrente)
MaxEpisConc == 1
MaxLogConc == 4
MaxSessoes == 2

\* A nullable DateTime column that holds no value.
NullTime == 0

\* ------------------------------------------------------------- inputs
Quantidades == {-1, 0, 1, 2}
QtdCenario == {0, 2, 5, 20}
Nomes == {"", "Capacete"}
\* a validade_ca text is the sequence of its characters; <<>> is the empty field
Validade2030 == <<"3", "1", "/", "1", "2", "/", "2", "0", "3", "0">>
ValidadesCa == {<<>>, Validade2030}
\* the names of employees
NomesFunc == {"Ana"}
Senhas == {"", "s1"}
\* editar_epi is sent with its text fields empty, which keeps the stored text
NomesEdicao == {""}
ValidadesCaEdicao == {<<>>}

VARIABLES epi, funcionario, entrega_epi, historico_epi, log, utcnow, resposta, pc, req,
          painel, sessao, lim

vars == <<epi, funcionario, entrega_epi, historico_epi, log, utcnow, resposta, pc, req,
          painel, sessao, lim>>
tabelas == <<epi, funcionario, entrega_epi, historico_epi, log>>

\* ------------------------------------------------------------- tables
MaxOf(S) == CHOOSE m \in S : \A x \in S : x <= m

NextId(t) == IF DOMAIN t = {} THEN 1 ELSE MaxOf(DOMAIN t) + 1

Insert(t, row) ==
    LET id == NextId(t)
    IN  [i \in DOMAIN t \cup {id} |-> IF i = id THEN row ELSE t[i]]

DeleteWhere(t, ids) == [i \in DOMAIN t \ ids |-> t[i]]

Update(t, id, row) == [t EXCEPT ![id] = row]

EmptyTable == [i \in {} |-> 0]

\* ------------------------------------------------------------- helpers
\* current_user.nome: one staff member is logged in
Usuario == "admin"

registrar_log(l, acao) == Append(l, [usuario |-> Usuario])

registrar_historico(h, epi_id, acao, quantidade) ==
    Insert(h, [epi_id |-> epi_id, acao |-> acao, quantidade |-> quantidade])

\* the locals of an entregar_epi request between its commits; NoReq when none
NoReq == [epi_id |-> 0, quantidade |-> 0]

\* the values the last response rendered on the dashboard; NoPainel when the
\* last response was another page
NoPainel == <<>>

\* the sizes the tables may grow to in the behaviours of Spec
LimSpec == [epis |-> MaxEpis, funcs |-> MaxFuncs, entregas |-> MaxEntregas,
            hist |-> MaxHist, log |-> MaxLog, time |-> MaxTime]

\* the empty database, with the tables allowed to grow to the sizes l
InitLim(l) ==
    /\ epi = EmptyTable
    /\ funcionario = EmptyTable
    /\ entrega_epi = EmptyTable
    /\ historico_epi = EmptyTable
    /\ log = <<>>
    /\ utcnow = 1
    /\ resposta = ""
    /\ pc = "idle"
    /\ req = NoReq
    /\ painel = NoPainel
    /\ sessao = <<>>
    /\ lim = l

Init == InitLim(LimSpec)

\* the clock of datetime.utcnow() moves on between requests
Tick ==
    /\ pc = "idle"
    /\ utcnow < lim.time
    /\ utcnow' = utcnow + 1
    /\ UNCHANGED <<tabelas, resposta, pc, req, painel, sessao, lim>>

\* ------------------------------------------------------------- epis
\* the form's quantidade: <<>> when the field is empty, <<n>> otherwise
FormQtd(Q) == {<<>>} \cup {<<q>> : q \in Q}

\* mutant: a negative quantity is not refused
epis_invalido_sem_quantidade(nome, validade_ca, quantidade) ==
    nome = "" \/ validade_ca = <<>>

epis_invalido(nome, validade_ca, quantidade) ==
    nome = "" \/ validade_ca = <<>> \/ quantidade < 0

epis(nome, validade_ca, qform) ==
    LET quantidade == IF qform = <<>> THEN 0 ELSE qform[1]
        id == NextId(epi)
    IN  /\ pc = "idle"
        /\ IF epis_invalido(nome, validade_ca, quantidade)
           THEN /\ resposta' = "preencha_epi"
                /\ UNCHANGED tabelas
           ELSE /\ id <= lim.epis
                /\ NextId(historico_epi) <= lim.hist
                /\ Len(log) < lim.log
                /\ epi' = Insert(epi, [nome |-> nome, validade_ca |-> validade_ca,
                                       quantidade |-> quantidade])
                /\ historico_epi' = registrar_historico(historico_epi, id, "Cadastro", quantidade)
                /\ log' = registrar_log(log, "Cadastrou novo EPI")
                /\ resposta' = "epi_cadastrado"
                /\ UNCHANGED <<funcionario, entrega_epi>>
        /\ UNCHANGED <<utcnow, pc, req, sessao, lim>>
        /\ painel' = NoPainel

\* mutant: a quantity of 0 is taken for an empty field
epi_editado_zero_vazio(row, nome, validade_ca, qform) ==
    [nome |-> IF nome = "" THEN row.nome ELSE nome,
     validade_ca |-> IF validade_ca = <<>> THEN row.validade_ca ELSE validade_ca,
     quantidade |-> IF qform = <<>> \/ qform = <<0>> THEN row.quantidade ELSE qform[1]]

\* the row after the form fields are applied: an empty field keeps the old value
epi_editado(row, nome, validade_ca, qform) ==
    [nome |-> IF nome = "" THEN row.nome ELSE nome,
     validade_ca |-> IF validade_ca = <<>> THEN row.validade_ca ELSE validade_ca,
     quantidade |-> IF qform = <<>> THEN row.quantidade ELSE qform[1]]

editar_epi(id, nome, validade_ca, qform) ==
    LET quantidade_antiga == epi[id].quantidade
        novo == epi_editado(epi[id], nome, validade_ca, qform)
    IN  /\ pc = "idle"
        /\ id \in DOMAIN epi
        /\ Len(log) < lim.log
        /\ epi' = Update(epi, id, novo)
        /\ IF novo.quantidade # quantidade_antiga
           THEN /\ NextId(historico_epi) <= lim.hist
                /\ historico_epi' = registrar_historico(historico_epi, id,
                       "Ajuste de Estoque", novo.quantidade - quantidade_antiga)
           ELSE UNCHANGED historico_epi
        /\ log' = registrar_log(log, "Editou EPI")
        /\ resposta' = "epi_atualizado"
        /\ UNCHANGED <<funcionario, entrega_epi, utcnow, pc, req, sessao, lim>>
        /\ painel' = NoPainel

\* mutant: the Deliveries of the item are left behind when it is removed
epi_entregas_sem_cascata(t, id) == {}

\* Epi.entregas and Epi.historico, both cascade='all, delete-orphan'
epi_entregas(t, id) == {i \in DOMAIN t : t[i].epi_id = id}

\* mutant: the cascade is not restricted to the rows of the item
epi_historico_de_todos(h, id) == DOMAIN h

epi_historico(h, id) == {i \in DOMAIN h : h[i].epi_id = id}

\* mutant: the cascade runs over the rows loaded before the "Exclusao" row was added
historico_apos_exclusao_desatualizado(h, id) ==
    LET h1 == registrar_historico(h, id, "Exclusao", 0)
    IN  DeleteWhere(h1, epi_historico(h, id))

\* historico_epi after deletar_epi: the "Exclusao" row is committed first, then
\* the delete cascades over the rows of the item as they are then
historico_apos_exclusao(h, id) ==
    LET h1 == registrar_historico(h, id, "Exclusao", 0)
    IN  DeleteWhere(h1, epi_historico(h1, id))

deletar_epi(id) ==
    /\ pc = "idle"
    /\ id \in DOMAIN epi
    /\ Len(log) < lim.log
    /\ log' = registrar_log(log, "Excluiu EPI")
    /\ epi' = DeleteWhere(epi, {id})
    /\ entrega_epi' = DeleteWhere(entrega_epi, epi_entregas(entrega_epi, id))
    /\ historico_epi' = historico_apos_exclusao(historico_epi, id)
    /\ resposta' = "epi_removido"
    /\ UNCHANGED <<funcionario, utcnow, pc, req, sessao, lim>>
    /\ painel' = NoPainel

\* ------------------------------------------------------------- entregar_epi
\* funcionario.senha_validacao is <<>> while unset (None), <<s>> once defined
senha_ou_vazio(f) == IF f.senha_validacao = <<>> THEN "" ELSE f.senha_validacao[1]

\* mutant: the stock is not compared with the requested quantity
verificar_entrega_sem_estoque(funcionario_id, epi_id, senha, quantidade) ==
    IF funcionario_id \notin DOMAIN funcionario \/ epi_id \notin DOMAIN epi
    THEN "invalido"
    ELSE IF senha_ou_vazio(funcionario[funcionario_id]) # senha
    THEN "senha_incorreta"
    ELSE IF quantidade <= 0
    THEN "informe_quantidade"
    ELSE "ok"

\* mutant: the quantity is checked before the secret
verificar_entrega_quantidade_antes(funcionario_id, epi_id, senha, quantidade) ==
    IF funcionario_id \notin DOMAIN funcionario \/ epi_id \notin DOMAIN epi
    THEN "invalido"
    ELSE IF quantidade <= 0
    THEN "informe_quantidade"
    ELSE IF senha_ou_vazio(funcionario[funcionario_id]) # senha
    THEN "senha_incorreta"
    ELSE IF epi[epi_id].quantidade < quantidade
    THEN "estoque_insuficiente"
    ELSE "ok"

\* the precondition checks, in the order of the handler; "ok" when all pass
verificar_entrega(funcionario_id, epi_id, senha, quantidade) ==
    IF funcionario_id \notin DOMAIN funcionario \/ epi_id \notin DOMAIN epi
    THEN "invalido"
    ELSE IF senha_ou_vazio(funcionario[funcionario_id]) # senha
    THEN "senha_incorreta"
    ELSE IF quantidade <= 0
    THEN "informe_quantidade"
    ELSE IF epi[epi_id].quantidade < quantidade
    THEN "estoque_insuficiente"
    ELSE "ok"

nova_entrega(funcionario_id, epi_id, quantidade) ==
    [funcionario_id |-> funcionario_id, epi_id |-> epi_id, quantidade |-> quantidade,
     data_entrega |-> utcnow, status |-> "entregue",
     data_devolucao |-> NullTime, data_descarte |-> NullTime]

\* mutant: the operands of the subtraction are swapped
estoque_apos_entrega_invertido(atual, quantidade) ==
    IF quantidade - atual > 0 THEN quantidade - atual ELSE 0

estoque_apos_entrega(atual, quantidade) ==
    IF atual - quantidade > 0 THEN atual - quantidade ELSE 0

\* the Delivery row and the decrement, written by one commit
entrega_commit(funcionario_id, epi_id, quantidade) ==
    /\ NextId(entrega_epi) <= lim.entregas
    /\ NextId(historico_epi) <= lim.hist
    /\ Len(log) < lim.log
    /\ entrega_epi' = Insert(entrega_epi, nova_entrega(funcionario_id, epi_id, quantidade))
    /\ epi' = [epi EXCEPT ![epi_id].quantidade = estoque_apos_entrega(@, quantidade)]

entregar_epi(funcionario_id, epi_id, quantidade, senha) ==
    LET v == verificar_entrega(funcionario_id, epi_id, senha, quantidade)
    IN  /\ pc = "idle"
        /\ IF v # "ok"
           THEN /\ resposta' = v
                /\ UNCHANGED tabelas
           ELSE /\ entrega_commit(funcionario_id, epi_id, quantidade)
                /\ historico_epi' = registrar_historico(historico_epi, epi_id, "Entrega", quantidade)
                /\ log' = registrar_log(log, "Entregou")
                /\ resposta' = "entregue"
                /\ UNCHANGED funcionario
        /\ UNCHANGED <<utcnow, pc, req, sessao, lim>>
        /\ painel' = NoPainel

\* ------------------------------------------------------------- devolver_epi / descartar_epi
\* mutant: a finalised Delivery is not refused
devolver_verificar_sem_finalizada(entrega, qtd) ==
    IF qtd <= 0 \/ qtd > entrega.quantidade
    THEN "quantidade_invalida"
    ELSE "ok"

devolver_verificar(entrega, qtd) ==
    IF entrega.status \in {"devolvido", "descartado"}
    THEN "finalizada"
    ELSE IF qtd <= 0 \/ qtd > entrega.quantidade
    THEN "quantidade_invalida"
    ELSE "ok"

\* mutant: the quantity is decremented by what came back, not overwritten
entrega_devolvida_decrementa(entrega, qtd) ==
    [entrega EXCEPT
        !.status = IF qtd = entrega.quantidade THEN "devolvido" ELSE @,
        !.data_devolucao = IF qtd = entrega.quantidade THEN utcnow ELSE @,
        !.quantidade = @ - qtd]

\* mutant: every accepted return stamps data_devolucao, a return in part too
entrega_devolvida_sempre_datada(entrega, qtd) ==
    [entrega EXCEPT
        !.status = IF qtd = entrega.quantidade THEN "devolvido" ELSE @,
        !.data_devolucao = utcnow,
        !.quantidade = qtd]

entrega_devolvida(entrega, qtd) ==
    [entrega EXCEPT
        !.status = IF qtd = entrega.quantidade THEN "devolvido" ELSE @,
        !.data_devolucao = IF qtd = entrega.quantidade THEN utcnow ELSE @,
        !.quantidade = qtd]

\* mutant: a return is not put back into the stock
estoque_apos_devolucao_sem_reposicao(atual, qtd) == atual

estoque_apos_devolucao(atual, qtd) == atual + qtd

\* mutant: a return that succeeds writes a "Devolucao" row into historico_epi
devolver_epi_com_historico(entrega_id, qtd) ==
    LET entrega == entrega_epi[entrega_id]
        v == devolver_verificar(entrega, qtd)
    IN  /\ pc = "idle"
        /\ entrega_id \in DOMAIN entrega_epi
        /\ IF v # "ok"
           THEN /\ resposta' = v
                /\ UNCHANGED tabelas
           ELSE /\ entrega_epi' = Update(entrega_epi, entrega_id, entrega_devolvida(entrega, qtd))
                /\ epi' = [epi EXCEPT ![entrega.epi_id].quantidade =
                                          estoque_apos_devolucao(@, qtd)]
                /\ historico_epi' = registrar_historico(historico_epi, entrega.epi_id,
                                                        "Devolucao", qtd)
                /\ resposta' = "ok"
                /\ UNCHANGED <<funcionario, log>>
        /\ UNCHANGED <<utcnow, pc, req, sessao, lim>>
        /\ painel' = NoPainel

devolver_epi(entrega_id, qtd) ==
    LET entrega == entrega_epi[entrega_id]
        v == devolver_verificar(entrega, qtd)
    IN  /\ pc = "idle"
        /\ entrega_id \in DOMAIN entrega_epi
        /\ IF v # "ok"
           THEN /\ resposta' = v
                /\ UNCHANGED tabelas
           ELSE /\ entrega_epi' = Update(entrega_epi, entrega_id, entrega_devolvida(entrega, qtd))
                /\ epi' = [epi EXCEPT ![entrega.epi_id].quantidade =
                                          estoque_apos_devolucao(@, qtd)]
                /\ resposta' = "ok"
                /\ UNCHANGED <<funcionario, historico_epi, log>>
        /\ UNCHANGED <<utcnow, pc, req, sessao, lim>>
        /\ painel' = NoPainel

\* mutant: a quantity above the Delivery's is not refused
descartar_verificar_sem_limite(entrega, qtd) ==
    IF entrega.status \in {"devolvido", "descartado"}
    THEN "finalizada"
    ELSE IF qtd <= 0
    THEN "quantidade_invalida"
    ELSE "ok"

descartar_verificar(entrega, qtd) ==
    IF entrega.status \in {"devolvido", "descartado"}
    THEN "finalizada"
    ELSE IF qtd <= 0 \/ qtd > entrega.quantidade
    THEN "quantidade_invalida"
    ELSE "ok"

\* mutant: the quantity is decremented by what was discarded, not overwritten
entrega_descartada_decrementa(entrega, qtd) ==
    [entrega EXCEPT
        !.status = IF qtd = entrega.quantidade THEN "descartado" ELSE @,
        !.data_descarte = IF qtd = entrega.quantidade THEN utcnow ELSE @,
        !.quantidade = @ - qtd]

entrega_descartada(entrega, qtd) ==
    [entrega EXCEPT
        !.status = IF qtd = entrega.quantidade THEN "descartado" ELSE @,
        !.data_descarte = IF qtd = entrega.quantidade THEN utcnow ELSE @,
        !.quantidade = qtd]

\* mutant: a discard is put back into the stock, as a return is
estoque_apos_descarte_repoe(atual, qtd) == atual + qtd

\* the stock of the delivered item after a discard: nothing is put back
estoque_apos_descarte(atual, qtd) == atual

descartar_epi(entrega_id, qtd) ==
    LET entrega == entrega_epi[entrega_id]
        v == descartar_verificar(entrega, qtd)
    IN  /\ pc = "idle"
        /\ entrega_id \in DOMAIN entrega_epi
        /\ IF v # "ok"
           THEN /\ resposta' = v
                /\ UNCHANGED tabelas
           ELSE /\ entrega_epi' = Update(entrega_epi, entrega_id, entrega_descartada(entrega, qtd))
                /\ epi' = [epi EXCEPT ![entrega.epi_id].quantidade =
                                          estoque_apos_descarte(@, qtd)]
                /\ resposta' = "ok"
                /\ UNCHANGED <<funcionario, historico_epi, log>>
        /\ UNCHANGED <<utcnow, pc, req, sessao, lim>>
        /\ painel' = NoPainel

\* ------------------------------------------------------------- funcionarios
\* the form is taken as filled in, with a matricula not yet in use
cadastro_funcionarios(nome) ==
    /\ pc = "idle"
    /\ NextId(funcionario) <= lim.funcs
    /\ Len(log) < lim.log
    /\ funcionario' = Insert(funcionario, [nome |-> nome, senha_validacao |-> <<>>])
    /\ log' = registrar_log(log, "Cadastrou funcionario")
    /\ resposta' = "funcionario_cadastrado"
    /\ UNCHANGED <<epi, entrega_epi, historico_epi, utcnow, pc, req, sessao, lim>>
    /\ painel' = NoPainel

definir_senha_funcionario(id, senha) ==
    /\ pc = "idle"
    /\ id \in DOMAIN funcionario
    /\ Len(log) < lim.log
    /\ funcionario' = [funcionario EXCEPT ![id].senha_validacao = <<senha>>]
    /\ log' = registrar_log(log, "Definiu senha de validacao")
    /\ resposta' = "senha_cadastrada"
    /\ UNCHANGED <<epi, entrega_epi, historico_epi, utcnow, pc, req, sessao, lim>>
    /\ painel' = NoPainel

\* mutant: only the Deliveries still entregue are removed with the employee
funcionario_entregas_so_entregues(t, id) ==
    {i \in DOMAIN t : t[i].funcionario_id = id /\ t[i].status = "entregue"}

\* EntregaEpi.query.filter_by(funcionario_id=id)
funcionario_entregas(t, id) == {i \in DOMAIN t : t[i].funcionario_id = id}

\* mutant: what a Delivery of the employee still holds as entregue goes back
\* to the stock of its item
deletar_funcionario_com_reposicao(id) ==
    LET abertas(e) == {d \in funcionario_entregas(entrega_epi, id) :
                          entrega_epi[d].epi_id = e /\ entrega_epi[d].status = "entregue"}
        pendente(e) == IF abertas(e) = {} THEN 0
                       ELSE entrega_epi[CHOOSE d \in abertas(e) : TRUE].quantidade
    IN  /\ pc = "idle"
        /\ id \in DOMAIN funcionario
        /\ Len(log) < lim.log
        /\ entrega_epi' = DeleteWhere(entrega_epi, funcionario_entregas(entrega_epi, id))
        /\ funcionario' = DeleteWhere(funcionario, {id})
        /\ epi' = [e \in DOMAIN epi |-> [epi[e] EXCEPT !.quantidade = @ + pendente(e)]]
        /\ log' = registrar_log(log, "Excluiu funcionario")
        /\ resposta' = "funcionario_removido"
        /\ UNCHANGED <<historico_epi, utcnow, pc, req, sessao, lim>>
        /\ painel' = NoPainel

deletar_funcionario(id) ==
    /\ pc = "idle"
    /\ id \in DOMAIN funcionario
    /\ Len(log) < lim.log
    /\ entrega_epi' = DeleteWhere(entrega_epi, funcionario_entregas(entrega_epi, id))
    /\ funcionario' = DeleteWhere(funcionario, {id})
    /\ log' = registrar_log(log, "Excluiu funcionario")
    /\ resposta' = "funcionario_removido"
    /\ UNCHANGED <<epi, historico_epi, utcnow, pc, req, sessao, lim>>
    /\ painel' = NoPainel

\* ------------------------------------------------------------- dashboard
Algarismos == <<"0", "1", "2", "3", "4", "5", "6", "7", "8", "9">>

EhAlgarismo(c) == \E n \in 1 .. 10 : Algarismos[n] = c

ValorAlgarismo(c) == (CHOOSE n \in 1 .. 10 : Algarismos[n] = c) - 1

\* the number a sequence of digits writes
RECURSIVE ValorNumero(_)
ValorNumero(t) ==
    IF t = <<>> THEN 0
    ELSE 10 * ValorNumero(SubSeq(t, 1, Len(t) - 1)) + ValorAlgarismo(t[Len(t)])

SoAlgarismos(t) == \A i \in 1 .. Len(t) : EhAlgarismo(t[i])

Bissexto(ano) == (ano % 4 = 0 /\ ano % 100 # 0) \/ ano % 400 = 0

DiasNoMes(ano, mes) ==
    IF mes = 2 THEN (IF Bissexto(ano) THEN 29 ELSE 28)
    ELSE IF mes \in {4, 6, 9, 11} THEN 30
    ELSE 31

\* datetime.strptime(t, "%d/%m/%Y").date(): <<ano, mes, dia>>, or <<>> where
\* strptime raises ValueError.  %d and %m take one or two digits and no value
\* of 0, %Y takes exactly four digits, nothing may be left over, and the day
\* has to exist in the month.
strptime_dmY(t) ==
    LET barras == {i \in 1 .. Len(t) : t[i] = "/"}
    IN  IF Cardinality(barras) # 2 THEN <<>>
        ELSE LET b1 == CHOOSE i \in barras : \A j \in barras : i <= j
                 b2 == CHOOSE i \in barras : \A j \in barras : j <= i
                 d == SubSeq(t, 1, b1 - 1)
                 m == SubSeq(t, b1 + 1, b2 - 1)
                 Y == SubSeq(t, b2 + 1, Len(t))
             IN  IF /\ SoAlgarismos(d) /\ SoAlgarismos(m) /\ SoAlgarismos(Y)
                    /\ Len(d) \in {1, 2} /\ ValorNumero(d) \in 1 .. 31
                    /\ Len(m) \in {1, 2} /\ ValorNumero(m) \in 1 .. 12
                    /\ Len(Y) = 4 /\ ValorNumero(Y) >= 1
                    /\ ValorNumero(d) <= DiasNoMes(ValorNumero(Y), ValorNumero(m))
                 THEN <<ValorNumero(Y), ValorNumero(m), ValorNumero(d)>>
                 ELSE <<>>

\* mutant: an item that expires today counts as expired
data_anterior_ou_igual(a, b) ==
    \/ a[1] < b[1]
    \/ a[1] = b[1] /\ a[2] < b[2]
    \/ a[1] = b[1] /\ a[2] = b[2] /\ a[3] <= b[3]

\* validade < hoje on two dates <<ano, mes, dia>>
data_anterior(a, b) ==
    \/ a[1] < b[1]
    \/ a[1] = b[1] /\ a[2] < b[2]
    \/ a[1] = b[1] /\ a[2] = b[2] /\ a[3] < b[3]

\* the items the loop over Epi.query.all() appends to vencidos
vencidos(hoje) ==
    {i \in DOMAIN epi :
        LET validade == strptime_dmY(epi[i].validade_ca)
        IN  validade # <<>> /\ data_anterior(validade, hoje)}

\* the date filter after parse_data: <<>> when data_inicio or data_fim is
\* missing or is no date, <<inicio, fim>> otherwise, on the scale of utcnow
\* (one unit is a day; dt_fim is moved to the end of its day)
filtro_ativo(filtro) == filtro # <<>>

\* base_entregas: status 'entregue', within the date range when one is active
base_entregas(filtro) ==
    {d \in DOMAIN entrega_epi :
        /\ entrega_epi[d].status = "entregue"
        /\ filtro_ativo(filtro) =>
               /\ entrega_epi[d].data_entrega >= filtro[1]
               /\ entrega_epi[d].data_entrega <= filtro[2]}

RECURSIVE SomaQuantidades(_)
SomaQuantidades(ds) ==
    IF ds = {} THEN 0
    ELSE LET d == CHOOSE x \in ds : TRUE
         IN  entrega_epi[d].quantidade + SomaQuantidades(ds \ {d})

\* GROUP BY Funcionario.nome with count(EntregaEpi.id): the rows <<nome, count>>
colab_rows(filtro) ==
    LET base == base_entregas(filtro)
        nomes == {funcionario[entrega_epi[d].funcionario_id].nome : d \in base}
    IN  {<<n, Cardinality({d \in base :
                  funcionario[entrega_epi[d].funcionario_id].nome = n})>> : n \in nomes}

\* GROUP BY Epi.nome with sum(EntregaEpi.quantidade): the rows <<nome, sum>>
usados_rows(filtro) ==
    LET base == base_entregas(filtro)
        nomes == {epi[entrega_epi[d].epi_id].nome : d \in base}
    IN  {<<n, SomaQuantidades({d \in base : epi[entrega_epi[d].epi_id].nome = n})>> :
            n \in nomes}

\* ORDER BY the aggregate DESC: every order of the rows that is descending in
\* the aggregate (the order among equal aggregates is the database's choice)
order_by_desc(rows) ==
    {r \in [1 .. Cardinality(rows) -> rows] :
        /\ \A i, j \in DOMAIN r : i # j => r[i] # r[j]
        /\ \A i, j \in DOMAIN r : i < j => r[i][2] >= r[j][2]}

\* .limit(5) of the ranking of the most used items
LimiteMaisUsados == 5

limit(r, n) == SubSeq(r, 1, IF Len(r) < n THEN Len(r) ELSE n)

dashboard(hoje, filtro) ==
    /\ pc = "idle"
    /\ \E colabs \in order_by_desc(colab_rows(filtro)),
          usados \in order_by_desc(usados_rows(filtro)) :
          painel' = [vencidos |-> vencidos(hoje),
                     total_vencidos |-> Cardinality(vencidos(hoje)),
                     colabs |-> colabs,
                     usados |-> limit(usados, LimiteMaisUsados)]
    /\ resposta' = ""
    /\ UNCHANGED <<tabelas, utcnow, pc, req, sessao, lim>>

\* ------------------------------------------------------------- specification
EpiIds == 1 .. lim.epis
FuncIds == 1 .. lim.funcs
EntregaIds == 1 .. lim.entregas
\* the quantities sent to entregar_epi, devolver_epi and descartar_epi: 0 stands
\* for every quantity <= 0, which all take the same branch
NaoNegativas(Q) == {q \in Q : q >= 0}

\* the handlers other than entregar_epi, with quantities drawn from Q
Outros(Q) ==
    \/ Tick
    \/ \E n \in Nomes, v \in ValidadesCa, q \in FormQtd(Q) : epis(n, v, q)
    \/ \E id \in EpiIds, n \in NomesEdicao, v \in ValidadesCaEdicao, q \in FormQtd(Q) :
          editar_epi(id, n, v, q)
    \/ \E id \in EpiIds : deletar_epi(id)
    \/ \E id \in EntregaIds, q \in NaoNegativas(Q) : devolver_epi(id, q)
    \/ \E id \in EntregaIds, q \in NaoNegativas(Q) : descartar_epi(id, q)
    \/ \E n \in NomesFunc : cadastro_funcionarios(n)
    \/ \E id \in FuncIds, s \in Senhas : definir_senha_funcionario(id, s)
    \/ \E id \in FuncIds : deletar_funcionario(id)

NextQ(Q) ==
    \/ Outros(Q)
    \/ \E f \in FuncIds, e \in EpiIds, q \in NaoNegativas(Q), s \in Senhas :
          entregar_epi(f, e, q, s)

Next == NextQ(Quantidades)

Spec == Init /\ [][Next]_vars

\* the same handlers with the quantities of the end-to-end scenario
NextCenario == NextQ(QtdCenario)

SpecCenario == Init /\ [][NextCenario]_vars

\* ------------------------------------------------------------- entregar_epi, commit by commit
\* entregar_epi writes with three commits: the Delivery row and the decrement,
\* then the historico_epi row (registrar_historico), then the log row
\* (registrar_log).  A commit that raises, or the process dying, ends the
\* request after the commits already made: rollback() undoes none of them.
entregar_inicio(funcionario_id, epi_id, quantidade, senha) ==
    LET v == verificar_entrega(funcionario_id, epi_id, senha, quantidade)
    IN  /\ pc = "idle"
        /\ IF v # "ok"
           THEN /\ resposta' = v
                /\ UNCHANGED <<tabelas, pc, req>>
           ELSE /\ entrega_commit(funcionario_id, epi_id, quantidade)
                /\ pc' = "historico"
                /\ req' = [epi_id |-> epi_id, quantidade |-> quantidade]
                /\ UNCHANGED <<funcionario, historico_epi, log, resposta>>
        /\ painel' = NoPainel
        /\ UNCHANGED <<utcnow, sessao, lim>>

entregar_historico ==
    /\ pc = "historico"
    /\ historico_epi' = registrar_historico(historico_epi, req.epi_id, "Entrega", req.quantidade)
    /\ pc' = "log"
    /\ UNCHANGED <<epi, funcionario, entrega_epi, log, utcnow, resposta, req, painel, sessao, lim>>

entregar_log ==
    /\ pc = "log"
    /\ log' = registrar_log(log, "Entregou")
    /\ resposta' = "entregue"
    /\ pc' = "idle"
    /\ req' = NoReq
    /\ UNCHANGED <<epi, funcionario, entrega_epi, historico_epi, utcnow, painel, sessao, lim>>

entregar_falha ==
    /\ pc \in {"historico", "log"}
    /\ resposta' = "erro"
    /\ pc' = "idle"
    /\ req' = NoReq
    /\ UNCHANGED <<tabelas, utcnow, painel, sessao, lim>>

NextFalha ==
    \/ Outros(Quantidades)
    \/ \E f \in FuncIds, e \in EpiIds, q \in NaoNegativas(Quantidades), s \in Senhas :
          entregar_inicio(f, e, q, s)
    \/ entregar_historico
    \/ entregar_log
    \/ entregar_falha

SpecFalha == Init /\ [][NextFalha]_vars

\* ------------------------------------------------------------- the deliver form
\* the ids a deliver form can carry: an empty field is read as 0, which is no row
FuncIdsForm == 0 .. lim.funcs
EpiIdsForm == 0 .. lim.epis

\* delivers with every id, quantity and secret the form can carry, on the
\* employees and items that registrations, a secret and a removal leave
NextFormulario ==
    \/ \E n \in NomesFunc : cadastro_funcionarios(n)
    \/ \E id \in FuncIds, s \in Senhas : definir_senha_funcionario(id, s)
    \/ \E q \in FormQtd(Quantidades) : epis("Capacete", Validade2030, q)
    \/ \E id \in EpiIds : deletar_epi(id)
    \/ \E f \in FuncIdsForm, e \in EpiIdsForm, q \in Quantidades, s \in Senhas :
          entregar_epi(f, e, q, s)

SpecFormulario == Init /\ [][NextFormulario]_vars

\* ------------------------------------------------------------- expired items
\* the validade_ca texts registered: 31/12/2030, 01/01/2020, 1/3/2020,
\* 2020-01-01, 30/02/2020 and 29/02/2020
ValidadesTexto ==
    {Validade2030,
     <<"0", "1", "/", "0", "1", "/", "2", "0", "2", "0">>,
     <<"1", "/", "3", "/", "2", "0", "2", "0">>,
     <<"2", "0", "2", "0", "-", "0", "1", "-", "0", "1">>,
     <<"3", "0", "/", "0", "2", "/", "2", "0", "2", "0">>,
     <<"2", "9", "/", "0", "2", "/", "2", "0", "2", "0">>}

\* the days date.today() is read on: <<ano, mes, dia>>
Hojes == {<<2020, 1, 1>>, <<2020, 3, 1>>, <<2020, 3, 2>>, <<2031, 1, 1>>}

\* items registered with these texts, removed, and the dashboard read
NextVencidos ==
    \/ \E v \in ValidadesTexto : epis("Capacete", v, <<0>>)
    \/ \E id \in EpiIds : deletar_epi(id)
    \/ \E hoje \in Hojes : dashboard(hoje, <<>>)

SpecVencidos == Init /\ [][NextVencidos]_vars

\* ------------------------------------------------------------- removals
\* registrations, deliveries, returns, discards and the two removals, with one
\* valid form each and tables large enough for two employees with a Delivery each
LimCascata == [epis |-> MaxEpis, funcs |-> MaxFuncsCasc, entregas |-> MaxEntregasCasc,
               hist |-> MaxHistCasc, log |-> MaxLogCasc, time |-> MaxTime]

QtdCascata == {1, 2}

InitCascata == InitLim(LimCascata)

NextCascata ==
    \/ \E n \in NomesFunc : cadastro_funcionarios(n)
    \/ epis("Capacete", Validade2030, <<2>>)
    \/ \E f \in FuncIds, e \in EpiIds, q \in QtdCascata : entregar_epi(f, e, q, "")
    \/ \E id \in EntregaIds, q \in QtdCascata : devolver_epi(id, q)
    \/ \E id \in EntregaIds, q \in QtdCascata : descartar_epi(id, q)
    \/ \E id \in EpiIds : deletar_epi(id)
    \/ \E id \in FuncIds : deletar_funcionario(id)

SpecCascata == InitCascata /\ [][NextCascata]_vars

\* ------------------------------------------------------------- returns in parts
\* Register, deliver, return and discard, without editar_epi and without
\* removals, with quantities that let one Delivery be returned in three parts.
QtdDevolucao == {1, 2, 3}

NextDevolucao ==
    \/ \E n \in NomesFunc : cadastro_funcionarios(n)
    \/ \E q \in QtdDevolucao : epis("Capacete", Validade2030, <<q>>)
    \/ \E f \in FuncIds, e \in EpiIds, q \in QtdDevolucao : entregar_epi(f, e, q, "")
    \/ \E id \in EntregaIds, q \in QtdDevolucao : devolver_epi(id, q)
    \/ \E id \in EntregaIds, q \in QtdDevolucao : descartar_epi(id, q)

SpecDevolucao == Init /\ [][NextDevolucao]_vars

\* ------------------------------------------------------------- concurrent deliveries
\* Requests are served by threads, each with its own database session.  An
\* entregar_epi request loads its rows and tests them (entregar_carregar), and
\* later writes what it computed from the rows as it loaded them
\* (entregar_gravar); other requests may run in between.  sessao holds, for
\* each request between the two, its form and the stock it loaded.
entregar_carregar(funcionario_id, epi_id, quantidade, senha) ==
    LET v == verificar_entrega(funcionario_id, epi_id, senha, quantidade)
    IN  /\ pc = "idle"
        /\ IF v # "ok"
           THEN /\ resposta' = v
                /\ UNCHANGED sessao
           ELSE /\ Len(sessao) < MaxSessoes
                /\ NextId(entrega_epi) + Len(sessao) <= lim.entregas
                /\ NextId(historico_epi) + Len(sessao) <= lim.hist
                /\ Len(log) + Len(sessao) < lim.log
                /\ sessao' = Append(sessao, [funcionario_id |-> funcionario_id,
                                             epi_id |-> epi_id,
                                             quantidade |-> quantidade,
                                             lido |-> epi[epi_id].quantidade])
                /\ UNCHANGED resposta
        /\ painel' = NoPainel
        /\ UNCHANGED <<tabelas, utcnow, pc, req, lim>>

\* mutant: the decrement is applied to the stock as it is when it is written
estoque_gravado_do_atual(lido, atual, quantidade) == estoque_apos_entrega(atual, quantidade)

\* the stock the UPDATE writes: computed from the value the session loaded
estoque_gravado(lido, atual, quantidade) == estoque_apos_entrega(lido, quantidade)

sem_a_sessao(i) == [k \in 1 .. Len(sessao) - 1 |-> IF k < i THEN sessao[k] ELSE sessao[k + 1]]

entregar_gravar(i) ==
    LET r == sessao[i]
    IN  /\ pc = "idle"
        /\ i \in 1 .. Len(sessao)
        /\ entrega_epi' = Insert(entrega_epi,
                                 nova_entrega(r.funcionario_id, r.epi_id, r.quantidade))
        /\ epi' = [epi EXCEPT ![r.epi_id].quantidade =
                                  estoque_gravado(r.lido, @, r.quantidade)]
        /\ historico_epi' = registrar_historico(historico_epi, r.epi_id, "Entrega", r.quantidade)
        /\ log' = registrar_log(log, "Entregou")
        /\ resposta' = "entregue"
        /\ sessao' = sem_a_sessao(i)
        /\ painel' = NoPainel
        /\ UNCHANGED <<funcionario, utcnow, pc, req, lim>>

LimConcorrente == [epis |-> MaxEpisConc, funcs |-> MaxFuncs, entregas |-> MaxEntregasCasc,
                   hist |-> MaxHistCasc, log |-> MaxLogConc, time |-> MaxTime]

NextConcorrente ==
    \/ \E n \in NomesFunc : cadastro_funcionarios(n)
    \/ \E q \in QtdCascata : epis("Capacete", Validade2030, <<q>>)
    \/ \E f \in FuncIds, e \in EpiIds, q \in NaoNegativas(Quantidades), s \in Senhas :
          entregar_carregar(f, e, q, s)
    \/ \E i \in 1 .. MaxSessoes : entregar_gravar(i)

SpecConcorrente == InitLim(LimConcorrente) /\ [][NextConcorrente]_vars

\* ------------------------------------------------------------- dashboard charts
NomesPainel == {"Ana", "Bia"}
NomesEpiPainel == {"Capacete", "Luva"}
HojePainel == <<2031, 1, 1>>
\* no date range, and the ranges over the days of utcnow
FiltrosPainel == {<<>>} \cup {<<a, b>> : a, b \in 1 .. lim.time}

\* employees and items registered under these names, deliveries, returns, and
\* the dashboard read with and without a date range
NextPainel ==
    \/ Tick
    \/ \E n \in NomesPainel : cadastro_funcionarios(n)
    \/ \E n \in NomesEpiPainel : epis(n, Validade2030, <<2>>)
    \/ \E f \in FuncIds, e \in EpiIds, q \in QtdCascata : entregar_epi(f, e, q, "")
    \/ \E id \in EntregaIds, q \in QtdCascata : devolver_epi(id, q)
    \/ \E filtro \in FiltrosPainel : dashboard(HojePainel, filtro)

SpecPainel == InitLim(LimCascata) /\ [][NextPainel]_vars

\* ------------------------------------------------------------- claims
HistIds == 1 .. lim.hist
QtdMov == NaoNegativas(Quantidades)

\* the supplied secret is the employee's validation secret (an unset secret is "")
SenhaCorreta(f, s) ==
    \/ funcionario[f].senha_validacao = <<s>>
    \/ funcionario[f].senha_validacao = <<>> /\ s = ""

\* every precondition of a deliver holds
EntregaPre(f, e, q, s) ==
    /\ f \in DOMAIN funcionario
    /\ e \in DOMAIN epi
    /\ SenhaCorreta(f, s)
    /\ q > 0
    /\ q <= epi[e].quantidade

\* table t2 is table t1 with exactly one new row, which satisfies P
UmaNovaLinha(t1, t2, ids, P(_)) ==
    \E n \in ids \ DOMAIN t1 :
        /\ DOMAIN t2 = DOMAIN t1 \cup {n}
        /\ P(t2[n])
        /\ \A x \in DOMAIN t1 : t2[x] = t1[x]

Finalizada(d) == entrega_epi[d].status \in {"devolvido", "descartado"}

\* C1: every existing item's on-hand quantity is >= 0 in every reachable state.
QuantidadeNaoNegativa == \A i \in DOMAIN epi : epi[i].quantidade >= 0

EntregaRecusada ==
    [][\A f \in FuncIds, e \in EpiIds, q \in QtdMov, s \in Senhas :
          (~EntregaPre(f, e, q, s) /\ entregar_epi(f, e, q, s)) =>
              /\ UNCHANGED <<epi, entrega_epi, historico_epi, log>>
              /\ (/\ f \in DOMAIN funcionario
                  /\ e \in DOMAIN epi
                  /\ SenhaCorreta(f, s)
                  /\ q > 0
                  /\ q > epi[e].quantidade) => resposta' = "estoque_insuficiente"
      ]_vars

EntregaRecusadaWitness ==
    /\ resposta = "estoque_insuficiente"
    /\ epi # EmptyTable
    /\ funcionario # EmptyTable

\* C4: a Delivery that is devolvido or descartado never changes again while it
\* exists, a return or discard on it is answered "finalizada" and changes
\* nothing, and a status only ever changes from entregue to devolvido (by a
\* return) or from entregue to descartado (by a discard).
EntregaFinalizadaTerminal ==
    [][\A d \in DOMAIN entrega_epi :
          /\ (d \in DOMAIN entrega_epi' /\ Finalizada(d)) => entrega_epi'[d] = entrega_epi[d]
          /\ Finalizada(d) =>
                \A q \in QtdMov :
                    (devolver_epi(d, q) \/ descartar_epi(d, q)) =>
                        (resposta' = "finalizada" /\ UNCHANGED tabelas)
          /\ (d \in DOMAIN entrega_epi' /\ entrega_epi'[d].status # entrega_epi[d].status) =>
                /\ entrega_epi[d].status = "entregue"
                /\ \/ entrega_epi'[d].status = "devolvido" /\ \E q \in QtdMov : devolver_epi(d, q)
                   \/ entrega_epi'[d].status = "descartado" /\ \E q \in QtdMov : descartar_epi(d, q)
      ]_vars

EntregaFinalizadaTerminalWitness ==
    /\ resposta = "finalizada"
    /\ \E d \in DOMAIN entrega_epi : Finalizada(d)

\* C5: a return of q on an entregue Delivery of quantity c, 0 < q <= c, sets
\* the Delivery's quantity to q, adds q to the item's stock, and makes the
\* Delivery devolvido, with a return timestamp, exactly when q = c.
DevolucaoParcialOuTotal ==
    [][\A d \in DOMAIN entrega_epi, q \in QtdMov :
          (/\ entrega_epi[d].status = "entregue"
           /\ 0 < q
           /\ q <= entrega_epi[d].quantidade
           /\ devolver_epi(d, q)) =>
              LET c == entrega_epi[d].quantidade
                  e == entrega_epi[d].epi_id
              IN  /\ entrega_epi'[d].quantidade = q
                  /\ epi'[e].quantidade = epi[e].quantidade + q
                  /\ (q = c) => /\ entrega_epi'[d].status = "devolvido"
                                /\ entrega_epi'[d].data_devolucao = utcnow
                                /\ entrega_epi'[d].data_devolucao # NullTime
                  /\ (q < c) => /\ entrega_epi'[d].status = "entregue"
                                /\ entrega_epi'[d].data_devolucao = NullTime
      ]_vars

\* an item registered with 2, all 2 delivered, 1 of them returned
DevolucaoParcialOuTotalWitness ==
    /\ resposta = "ok"
    /\ \E d \in DOMAIN entrega_epi :
          /\ entrega_epi[d].status = "entregue"
          /\ entrega_epi[d].quantidade = 1
          /\ epi[entrega_epi[d].epi_id].quantidade = 1
          /\ {historico_epi[h] : h \in epi_historico(historico_epi, entrega_epi[d].epi_id)} =
                 {[epi_id |-> entrega_epi[d].epi_id, acao |-> "Cadastro", quantidade |-> 2],
                  [epi_id |-> entrega_epi[d].epi_id, acao |-> "Entrega", quantidade |-> 2]}

\* C6: a discard, partial or full, accepted or refused, leaves every item's
\* on-hand quantity as it was.
DescarteNaoRepoeEstoque ==
    [][\A d \in DOMAIN entrega_epi, q \in QtdMov : descartar_epi(d, q) => epi' = epi]_vars

DescarteNaoRepoeEstoqueWitness ==
    /\ resposta = "ok"
    /\ \E d \in DOMAIN entrega_epi : entrega_epi[d].status = "descartado"

\* C7: a return or discard of q on an entregue Delivery of quantity c with
\* q <= 0 or q > c is answered "quantidade invalida" and leaves the Delivery
\* and every item's quantity unchanged.
QuantidadeInvalidaRecusada ==
    [][\A d \in DOMAIN entrega_epi, q \in QtdMov :
          (/\ entrega_epi[d].status = "entregue"
           /\ (q <= 0 \/ q > entrega_epi[d].quantidade)
           /\ devolver_epi(d, q) \/ descartar_epi(d, q)) =>
              /\ resposta' = "quantidade_invalida"
              /\ UNCHANGED <<entrega_epi, epi>>
      ]_vars

QuantidadeInvalidaRecusadaWitness ==
    /\ resposta = "quantidade_invalida"
    /\ \E d \in DOMAIN entrega_epi : entrega_epi[d].status = "entregue"

\* C8: once an entregar_epi request is over, however it ended, every Delivery
\* row of an item has its "Entrega" history row: the Delivery and the
\* decrement are never stored without the history entry.
EntregaAtomica ==
    pc = "idle" =>
        \A e \in DOMAIN epi :
            Cardinality(epi_entregas(entrega_epi, e)) <=
                Cardinality({h \in epi_historico(historico_epi, e) :
                                 historico_epi[h].acao = "Entrega"})

\* C9: from an item registered with 20, a deliver of 5 with the correct secret
\* gives stock 15 and a Delivery of 5, entregue; a return of 2 gives Delivery
\* quantity 2, entregue, stock 17; a second return of 2 gives Delivery
\* quantity 2, devolvido, stock 19.
CenarioCapacete ==
    [][\A e \in EpiIds, d \in EntregaIds :
          /\ (/\ e \in DOMAIN epi
              /\ epi[e].quantidade = 20
              /\ d = NextId(entrega_epi)
              /\ \E f \in FuncIds, s \in Senhas :
                    EntregaPre(f, e, 5, s) /\ entregar_epi(f, e, 5, s)) =>
                 /\ epi'[e].quantidade = 15
                 /\ entrega_epi'[d].quantidade = 5
                 /\ entrega_epi'[d].status = "entregue"
                 /\ entrega_epi'[d].epi_id = e
          /\ (/\ d \in DOMAIN entrega_epi
              /\ entrega_epi[d].epi_id = e
              /\ entrega_epi[d].quantidade = 5
              /\ entrega_epi[d].status = "entregue"
              /\ epi[e].quantidade = 15
              /\ devolver_epi(d, 2)) =>
                 /\ entrega_epi'[d].quantidade = 2
                 /\ entrega_epi'[d].status = "entregue"
                 /\ epi'[e].quantidade = 17
          /\ (/\ d \in DOMAIN entrega_epi
              /\ entrega_epi[d].epi_id = e
              /\ entrega_epi[d].quantidade = 2
              /\ entrega_epi[d].status = "entregue"
              /\ epi[e].quantidade = 17
              /\ devolver_epi(d, 2)) =>
                 /\ entrega_epi'[d].quantidade = 2
                 /\ entrega_epi'[d].status = "devolvido"
                 /\ epi'[e].quantidade = 19
      ]_vars

\* the end of the scenario: registered with 20, 5 delivered, nothing adjusted,
\* the Delivery devolvido with quantity 2 and the stock at 19
CenarioCapaceteWitness ==
    /\ resposta = "ok"
    /\ \E d \in DOMAIN entrega_epi :
          LET e == entrega_epi[d].epi_id
          IN  /\ entrega_epi[d].status = "devolvido"
              /\ entrega_epi[d].quantidade = 2
              /\ epi[e].quantidade = 19
              /\ {historico_epi[h] : h \in epi_historico(historico_epi, e)} =
                     {[epi_id |-> e, acao |-> "Cadastro", quantidade |-> 20],
                      [epi_id |-> e, acao |-> "Entrega", quantidade |-> 5]}

\* C10: after deletar_epi(id) no item, no Delivery and no history row refers to
\* id, the "Exclusao" row the handler wrote included, and the rows of the
\* other items are as they were.
ExclusaoEmCascata ==
    [][\A id \in EpiIds :
          deletar_epi(id) =>
              /\ id \notin DOMAIN epi'
              /\ \A d \in DOMAIN entrega_epi' : entrega_epi'[d].epi_id # id
              /\ \A h \in DOMAIN historico_epi' : historico_epi'[h].epi_id # id
              /\ \A i \in DOMAIN epi \ {id} : i \in DOMAIN epi' /\ epi'[i] = epi[i]
              /\ \A d \in DOMAIN entrega_epi :
                    entrega_epi[d].epi_id # id =>
                        d \in DOMAIN entrega_epi' /\ entrega_epi'[d] = entrega_epi[d]
              /\ \A h \in DOMAIN historico_epi :
                    historico_epi[h].epi_id # id =>
                        h \in DOMAIN historico_epi' /\ historico_epi'[h] = historico_epi[h]
      ]_vars

\* an item has just been removed and another item still has its history
ExclusaoEmCascataWitness ==
    /\ resposta = "epi_removido"
    /\ \E i \in DOMAIN epi : epi_historico(historico_epi, i) # {}
    /\ \E i \in EpiIds \ DOMAIN epi : epi_historico(historico_epi, i) = {}

\* C11: after deletar_funcionario(id) the employee is gone and no Delivery
\* refers to id, whatever its status was; the Deliveries of the other employees
\* are as they were.
ExclusaoDeFuncionario ==
    [][\A id \in FuncIds :
          deletar_funcionario(id) =>
              /\ id \notin DOMAIN funcionario'
              /\ \A d \in DOMAIN entrega_epi' : entrega_epi'[d].funcionario_id # id
              /\ \A d \in DOMAIN entrega_epi :
                    entrega_epi[d].funcionario_id # id =>
                        d \in DOMAIN entrega_epi' /\ entrega_epi'[d] = entrega_epi[d]
      ]_vars

\* an employee has just been removed with a Delivery of an item that is still
\* there (its "Entrega" rows outnumber its Deliveries), and the Delivery of
\* another employee, already finalised, is still stored
ExclusaoDeFuncionarioWitness ==
    /\ resposta = "funcionario_removido"
    /\ \E d \in DOMAIN entrega_epi : Finalizada(d)
    /\ \E e \in DOMAIN epi :
          Cardinality({h \in epi_historico(historico_epi, e) : historico_epi[h].acao = "Entrega"})
              > Cardinality(epi_entregas(entrega_epi, e))

\* the first precondition of a deliver that fails, in the order employee, item,
\* secret, quantity, stock; 0 when none fails
PrimeiraFalha(f, e, q, s) ==
    IF f \notin DOMAIN funcionario THEN 1
    ELSE IF e \notin DOMAIN epi THEN 2
    ELSE IF ~SenhaCorreta(f, s) THEN 3
    ELSE IF q <= 0 THEN 4
    ELSE IF q > epi[e].quantidade THEN 5
    ELSE 0

\* C12, as claimed: the answer of a deliver tells which of the five
\* preconditions failed first: one step is never the answer to two delivers
\* whose first failed preconditions differ.
EntregaFalhasDistintas ==
    [][\A f1, f2 \in FuncIdsForm, e1, e2 \in EpiIdsForm, q1, q2 \in Quantidades, s1, s2 \in Senhas :
          (/\ PrimeiraFalha(f1, e1, q1, s1) # PrimeiraFalha(f2, e2, q2, s2)
           /\ entregar_epi(f1, e1, q1, s1)) => ~entregar_epi(f2, e2, q2, s2)
      ]_vars

\* the answer to each first failure: a missing employee and a missing item
\* share one answer
RespostaDaFalha(n) ==
    CASE n = 0 -> "entregue"
      [] n \in {1, 2} -> "invalido"
      [] n = 3 -> "senha_incorreta"
      [] n = 4 -> "informe_quantidade"
      [] n = 5 -> "estoque_insuficiente"

\* C12, amended: a deliver answers for the first precondition that fails, in the
\* order employee, item, secret, quantity, stock; a missing employee and a
\* missing item get one and the same answer, which differs from the answers to
\* the three other failures, and those three differ from each other.
EntregaPrimeiraFalha ==
    [][\A f \in FuncIdsForm, e \in EpiIdsForm, q \in Quantidades, s \in Senhas :
          entregar_epi(f, e, q, s) => resposta' = RespostaDaFalha(PrimeiraFalha(f, e, q, s))
      ]_vars

\* a deliver for an item that does not exist has just been answered, the
\* employee being there
EntregaPrimeiraFalhaWitness ==
    /\ resposta = "invalido"
    /\ funcionario # EmptyTable
    /\ epi = EmptyTable

\* C13: editar_epi on an existing item holding o, sent with quantity n, leaves
\* the item holding n; when n # o it appends exactly one "Ajuste de Estoque"
\* history row with the signed quantity n - o, and when n = o it appends none.
AjusteDeEstoque ==
    [][\A id \in DOMAIN epi, n \in Quantidades :
          editar_epi(id, "", <<>>, <<n>>) =>
              LET o == epi[id].quantidade
                  Ajuste(r) == r = [epi_id |-> id, acao |-> "Ajuste de Estoque",
                                    quantidade |-> n - o]
              IN  /\ epi'[id].quantidade = n
                  /\ IF n # o
                     THEN UmaNovaLinha(historico_epi, historico_epi', HistIds, Ajuste)
                     ELSE historico_epi' = historico_epi
      ]_vars

\* an item has just been adjusted downwards: its history holds a negative delta
AjusteDeEstoqueWitness ==
    /\ resposta = "epi_atualizado"
    /\ \E h \in DOMAIN historico_epi :
          /\ historico_epi[h].acao = "Ajuste de Estoque"
          /\ historico_epi[h].quantidade < 0
          /\ historico_epi[h].epi_id \in DOMAIN epi

\* C14: a register with an empty name, an empty certificate expiry or a
\* quantity < 0 is answered with the validation message and creates no item
\* and no history row; any other register creates exactly one item holding the
\* quantity and appends exactly one "Cadastro" history row with that quantity.
CadastroDeEpi ==
    [][\A n \in Nomes, v \in ValidadesCa, qf \in FormQtd(Quantidades) :
          epis(n, v, qf) =>
              LET q == IF qf = <<>> THEN 0 ELSE qf[1]
                  id == NextId(epi)
                  NovoEpi(r) == r.quantidade = q /\ r.nome = n /\ r.validade_ca = v
                  Cadastro(r) == r = [epi_id |-> id, acao |-> "Cadastro", quantidade |-> q]
              IN  IF n = "" \/ v = <<>> \/ q < 0
                  THEN /\ resposta' = "preencha_epi"
                       /\ epi' = epi
                       /\ historico_epi' = historico_epi
                  ELSE /\ UmaNovaLinha(epi, epi', {id}, NovoEpi)
                       /\ UmaNovaLinha(historico_epi, historico_epi', HistIds, Cadastro)
      ]_vars

\* an item has just been registered with 2 and its "Cadastro" row says 2
CadastroDeEpiWitness ==
    /\ resposta = "epi_cadastrado"
    /\ \E i \in DOMAIN epi :
          /\ epi[i].quantidade = 2
          /\ \E h \in DOMAIN historico_epi :
                historico_epi[h] = [epi_id |-> i, acao |-> "Cadastro", quantidade |-> 2]

\* C15: a history row is never modified, and it is removed only in a step that
\* removes the item it belongs to.
HistoricoSomenteAcrescenta ==
    [][\A h \in DOMAIN historico_epi :
          \/ h \in DOMAIN historico_epi' /\ historico_epi'[h] = historico_epi[h]
          \/ /\ h \notin DOMAIN historico_epi'
             /\ historico_epi[h].epi_id \in DOMAIN epi
             /\ historico_epi[h].epi_id \notin DOMAIN epi'
      ]_vars

\* a row has been appended to the history of an item, whose "Cadastro" row is
\* still there
HistoricoSomenteAcrescentaWitness ==
    \E i \in DOMAIN epi :
        \E h1, h2 \in epi_historico(historico_epi, i) :
            /\ h1 < h2
            /\ historico_epi[h1].acao = "Cadastro"
            /\ historico_epi[h2].acao # "Cadastro"

\* the years, and the ways to write day d of month m of year a as
\* day/month/year: day and month with or without a leading zero
AnosEscritos == {2020, 2030}

Escrito(n, largura) ==
    [i \in 1 .. largura |->
        LET p == largura - i
            pot == IF p = 0 THEN 1 ELSE IF p = 1 THEN 10 ELSE IF p = 2 THEN 100 ELSE 1000
        IN  Algarismos[((n \div pot) % 10) + 1]]

EscritasDeAte99(n) == IF n < 10 THEN {Escrito(n, 1), Escrito(n, 2)} ELSE {Escrito(n, 2)}

EscritasDaData(a, m, d) ==
    {dd \o <<"/">> \o mm \o <<"/">> \o Escrito(a, 4) :
        dd \in EscritasDeAte99(d), mm \in EscritasDeAte99(m)}

\* the dates of the calendar in those years, each with one of its writings
DatasDoCalendario ==
    {x \in AnosEscritos \X (1 .. 12) \X (1 .. 31) : x[3] <= DiasNoMes(x[1], x[2])}

DatasEscritas ==
    UNION {{[texto |-> t, ano |-> x[1], mes |-> x[2], dia |-> x[3]] :
                t \in EscritasDaData(x[1], x[2], x[3])} : x \in DatasDoCalendario}

\* the text t writes, as day/month/year, a date of the calendar before hoje
EscreveDataAntesDe(t, hoje) ==
    \E e \in DatasEscritas :
        /\ e.texto = t
        /\ \/ e.ano < hoje[1]
           \/ e.ano = hoje[1] /\ e.mes < hoje[2]
           \/ e.ano = hoje[1] /\ e.mes = hoje[2] /\ e.dia < hoje[3]

\* C16: the dashboard read on day hoje lists as expired exactly the items
\* whose validade_ca writes, as day/month/year, a date strictly before hoje;
\* an item whose text is no such date, or whose date is hoje or later, is left
\* out.
EpisVencidos ==
    [][\A hoje \in Hojes :
          dashboard(hoje, <<>>) =>
              /\ painel'.vencidos =
                     {i \in DOMAIN epi : EscreveDataAntesDe(epi[i].validade_ca, hoje)}
              /\ painel'.total_vencidos = Cardinality(painel'.vencidos)
      ]_vars

\* the dashboard has listed one of two items as expired and left the other out
EpisVencidosWitness ==
    /\ painel # NoPainel
    /\ painel.total_vencidos = 1
    /\ Cardinality(DOMAIN epi) = 2

\* the Deliveries the charts are about: entregue, and delivered within the date
\* range when one is given
EntreguesNoPeriodo(filtro) ==
    {d \in DOMAIN entrega_epi :
        /\ entrega_epi[d].status = "entregue"
        /\ filtro # <<>> => entrega_epi[d].data_entrega \in filtro[1] .. filtro[2]}

RECURSIVE Soma(_, _)
Soma(f, S) == IF S = {} THEN 0 ELSE LET x == CHOOSE y \in S : TRUE IN f[x] + Soma(f, S \ {x})

\* the rows of chart are, one for one, the members of grupo, each row holding
\* the name and the aggregate of its member
UmaLinhaPorMembro(chart, grupo, nome(_), agregado(_)) ==
    \E g \in [DOMAIN chart -> grupo] :
        /\ \A i, j \in DOMAIN chart : i # j => g[i] # g[j]
        /\ \A i \in DOMAIN chart : chart[i] = <<nome(g[i]), agregado(g[i])>>
        /\ \A x \in grupo :
              (\E i \in DOMAIN chart : g[i] = x)
                  \/ /\ Len(chart) = LimiteMaisUsados
                     /\ \A i \in DOMAIN chart : chart[i][2] >= agregado(x)

\* C17: over the entregue Deliveries (of the date range when one is active)
\* the employee chart has one row per distinct employee with that employee's
\* count of Deliveries, and the item ranking has one row per distinct item with
\* the sum of that item's Delivery quantities, in descending order of the sum,
\* cut to the 5 largest.
PainelPorFuncionarioEItem ==
    [][\A filtro \in FiltrosPainel :
          dashboard(HojePainel, filtro) =>
              LET base == EntreguesNoPeriodo(filtro)
                  DoFuncionario(f) == {d \in base : entrega_epi[d].funcionario_id = f}
                  DoEpi(e) == {d \in base : entrega_epi[d].epi_id = e}
                  NomeFuncionario(f) == funcionario[f].nome
                  NomeEpi(e) == epi[e].nome
                  Contagem(f) == Cardinality(DoFuncionario(f))
                  Total(e) == Soma([d \in DOMAIN entrega_epi |-> entrega_epi[d].quantidade],
                                   DoEpi(e))
              IN  /\ Len(painel'.colabs) =
                         Cardinality({f \in DOMAIN funcionario : DoFuncionario(f) # {}})
                  /\ UmaLinhaPorMembro(painel'.colabs,
                         {f \in DOMAIN funcionario : DoFuncionario(f) # {}},
                         NomeFuncionario, Contagem)
                  /\ UmaLinhaPorMembro(painel'.usados,
                         {e \in DOMAIN epi : DoEpi(e) # {}}, NomeEpi, Total)
                  /\ \A i, j \in DOMAIN painel'.usados :
                        i < j => painel'.usados[i][2] >= painel'.usados[j][2]
      ]_vars

\* C18: a deliver that passed its stock check is written whatever the stock has
\* become since: its Delivery is stored as entregue with its quantity and the
\* stock is set from the value it had loaded.  So two delivers of q1 and q2
\* that both checked an item holding n before either was written both succeed,
\* also when q1 + q2 > n.
EntregasConcorrentes ==
    [][\A i \in 1 .. Len(sessao) :
          entregar_gravar(i) =>
              LET r == sessao[i]
                  Nova(d) == /\ d.status = "entregue"
                             /\ d.quantidade = r.quantidade
                             /\ d.epi_id = r.epi_id
              IN  /\ UmaNovaLinha(entrega_epi, entrega_epi', EntregaIds, Nova)
                  /\ resposta' = "entregue"
                  /\ epi'[r.epi_id].quantidade = r.lido - r.quantidade
      ]_vars

\* both requests are over, and the item, registered with n and never adjusted,
\* has two entregue Deliveries whose quantities add up to more than n
EntregasConcorrentesWitness ==
    /\ sessao = <<>>
    /\ resposta = "entregue"
    /\ \E d1, d2 \in DOMAIN entrega_epi :
          /\ d1 # d2
          /\ entrega_epi[d1].epi_id = entrega_epi[d2].epi_id
          /\ entrega_epi[d1].status = "entregue"
          /\ entrega_epi[d2].status = "entregue"
          /\ \E h \in DOMAIN historico_epi :
                /\ historico_epi[h].epi_id = entrega_epi[d1].epi_id
                /\ historico_epi[h].acao = "Cadastro"
                /\ entrega_epi[d1].quantidade + entrega_epi[d2].quantidade
                       > historico_epi[h].quantidade

\* C19: the returns of one Delivery never add back more than it delivered, so
\* that, with no adjust, the stock of an item never exceeds the quantity the
\* item was registered with.
EstoqueAteOCadastro ==
    \A h \in DOMAIN historico_epi :
        (historico_epi[h].acao = "Cadastro" /\ historico_epi[h].epi_id \in DOMAIN epi)
            => epi[historico_epi[h].epi_id].quantidade <= historico_epi[h].quantidade

\* C20: in every state reached by a sequence of requests, removals of items
\* and employees included, every Delivery refers to a stored employee and a
\* stored item and every History row refers to a stored item.
IntegridadeReferencial ==
    /\ \A d \in DOMAIN entrega_epi :
          /\ entrega_epi[d].funcionario_id \in DOMAIN funcionario
          /\ entrega_epi[d].epi_id \in DOMAIN epi
    /\ \A h \in DOMAIN historico_epi : historico_epi[h].epi_id \in DOMAIN epi

\* an item has just been removed, and a Delivery and the History rows of
\* another item are still stored
IntegridadeReferencialWitness ==
    /\ resposta = "epi_removido"
    /\ DOMAIN entrega_epi # {}
    /\ DOMAIN historico_epi # {}
    /\ \E e \in EpiIds : e \notin DOMAIN epi

\* C21: the quantity of every stored Delivery is above 0, and no step raises
\* the quantity of a Delivery: a return or a discard that succeeds leaves it at
\* most what it was.
QuantidadeDaEntrega ==
    /\ [](\A d \in DOMAIN entrega_epi : entrega_epi[d].quantidade > 0)
    /\ [][\A d \in DOMAIN entrega_epi \cap DOMAIN entrega_epi' :
             entrega_epi'[d].quantidade <= entrega_epi[d].quantidade]_vars

\* a discard of the whole of what was left of a Delivery has succeeded after a
\* return in part: the Delivery holds less than its "Entrega" row tells
QuantidadeDaEntregaWitness ==
    /\ resposta = "ok"
    /\ \E d \in DOMAIN entrega_epi :
          /\ entrega_epi[d].status = "descartado"
          /\ \E h \in DOMAIN historico_epi :
                /\ historico_epi[h].acao = "Entrega"
                /\ historico_epi[h].epi_id = entrega_epi[d].epi_id
                /\ entrega_epi[d].quantidade < historico_epi[h].quantidade

\* the action tags registrar_historico is called with
AcoesDoHistorico == {"Cadastro", "Ajuste de Estoque", "Entrega", "Exclusao"}

\* C22: a return or a discard, accepted or refused, leaves historico_epi and
\* log as they are, and every row of historico_epi carries one of the tags
\* Cadastro, Ajuste de Estoque, Entrega and Exclusao.
DevolucaoEDescarteSemRegistro ==
    /\ [][\A id \in EntregaIds, q \in Quantidades :
             (devolver_epi(id, q) \/ descartar_epi(id, q)) =>
                 UNCHANGED <<historico_epi, log>>]_vars
    /\ [](\A h \in DOMAIN historico_epi : historico_epi[h].acao \in AcoesDoHistorico)

\* a Delivery has been returned in full while historico_epi holds nothing but
\* the "Cadastro" and "Entrega" rows of its item and log the two rows and the
\* one of the employee
DevolucaoEDescarteSemRegistroWitness ==
    /\ resposta = "ok"
    /\ Len(log) = 3
    /\ \E d \in DOMAIN entrega_epi :
          /\ entrega_epi[d].status = "devolvido"
          /\ \A h \in DOMAIN historico_epi : historico_epi[h].epi_id = entrega_epi[d].epi_id
          /\ {historico_epi[h].acao : h \in DOMAIN historico_epi} = {"Cadastro", "Entrega"}
          /\ Cardinality(DOMAIN historico_epi) = 2

\* C23: deletar_funcionario leaves the stock of every item and historico_epi
\* as they are: what the Deliveries of the employee still held as entregue is
\* not put back.
ExclusaoDeFuncionarioSemReposicao ==
    [][\A id \in FuncIds :
          deletar_funcionario(id) => UNCHANGED <<epi, historico_epi>>]_vars

\* the only employee has just been removed and no Delivery is stored: an item
\* still holds what it was registered with less what its one "Entrega" row took
ExclusaoDeFuncionarioSemReposicaoWitness ==
    /\ resposta = "funcionario_removido"
    /\ DOMAIN entrega_epi = {}
    /\ DOMAIN funcionario = {}
    /\ \E e \in DOMAIN epi :
          \E c, h \in epi_historico(historico_epi, e) :
              /\ historico_epi[c].acao = "Cadastro"
              /\ historico_epi[h].acao = "Entrega"
              /\ Cardinality(epi_historico(historico_epi, e)) = 2
              /\ epi[e].quantidade = historico_epi[c].quantidade - historico_epi[h].quantidade

\* C24: in every state a Delivery has data_devolucao set exactly when its
\* status is devolvido and data_descarte set exactly when its status is
\* descartado, and never both.
DatasConformeStatus ==
    \A d \in DOMAIN entrega_epi :
        /\ (entrega_epi[d].data_devolucao # NullTime) <=> (entrega_epi[d].status = "devolvido")
        /\ (entrega_epi[d].data_descarte # NullTime) <=> (entrega_epi[d].status = "descartado")
        /\ ~(entrega_epi[d].data_devolucao # NullTime /\ entrega_epi[d].data_descarte # NullTime)

\* a Delivery made earlier has been discarded in full at a later time: it
\* carries that time as data_descarte and no data_devolucao
DatasConformeStatusWitness ==
    \E d \in DOMAIN entrega_epi :
        /\ entrega_epi[d].status = "descartado"
        /\ entrega_epi[d].data_descarte = utcnow
        /\ entrega_epi[d].data_entrega < utcnow
        /\ entrega_epi[d].data_devolucao = NullTime
====
